---- MODULE Spec2Model ----
(***************************************************************************)
(* A model of scripts/generate_assets_payload.py: the generators of one    *)
(* asset record, the batch assembler, format_size and main().              *)
(*                                                                         *)
(* A Python str is modelled as a TLA+ string where the program never looks *)
(* at its characters, and as a sequence of one-character strings where it  *)
(* does (the display name that is stripped, the count argument that int()  *)
(* parses).  A Python dict is an ordered sequence of <<key, value>> pairs  *)
(* (dicts keep insertion order, and json.dumps writes them in that order). *)
(* Every JSON value carries a tag t in {"str", "chars", "list", "dict"}.   *)
(***************************************************************************)
EXTENDS Integers, Sequences, FiniteSets, TLC

VARIABLES
    \* main()
    argv,         \* sys.argv, argv[1] being the script name (sys.argv[0])
    seed,         \* the state the random module was seeded with
    pc,           \* the stage main() is about to execute
    num_assets,   \* local num_assets
    extra_size,   \* local extra_size
    payload,      \* local payload
    json_str,     \* local json_str
    filename,     \* local filename
    fs,           \* the working directory: file name -> [exists, data]
    fs0,          \* history: the working directory as the run found it
    stdout,       \* the lines printed so far
    exc,          \* the exception that ended the run, "none" if none
    exit_code,    \* the exit status, meaningful once pc = "Exited"
    \* one call of generate_display()
    d_pc, length, d_picks, d_result,
    \* one call of format_size()
    f_pc, size_bytes, f_arg, unit, f_result

main_vars == <<argv, seed, fs0, pc, num_assets, extra_size, payload, json_str,
               filename, fs, stdout, exc, exit_code>>
display_vars == <<d_pc, length, d_picks, d_result>>
format_vars == <<f_pc, size_bytes, f_arg, unit, f_result>>
vars == <<main_vars, display_vars, format_vars>>

----------------------------------------------------------------------------
(* Bounds of the model and constants of the program.                       *)

MaxCount == 2        \* count arguments "0" .. "MaxCount" are tried
MaxSeed == 1         \* seeds 0 .. MaxSeed of the random module are tried
RawModulus == 65536  \* the generator's raw outputs are 0 .. RawModulus - 1
EdgeLen == 2         \* free characters at each end of a sampled display
MaxLimbs == 5        \* byte counts have up to MaxLimbs base-1024 digits

DefaultNumAssets == 1000
ChecksumLen == 64
DisplayMin == 10
DisplayMax == 120
MediumDescriptionLen == 200
LargeDescriptionLen == 500
LargeNotesLen == 300
LargeTagCount == 20
LargeConfigCount == 50
Kilo == 1024

----------------------------------------------------------------------------
(* Strings and JSON values.                                                *)

Str(s) == [t |-> "str", v |-> s]
Chars(cs) == [t |-> "chars", v |-> cs]
List(xs) == [t |-> "list", v |-> xs]
Dict(items) == [t |-> "dict", v |-> items]

Keys(d) == [i \in 1..Len(d.v) |-> d.v[i][1]]
HasKey(d, k) == \E i \in 1..Len(d.v) : d.v[i][1] = k
Get(d, k) == d.v[CHOOSE i \in 1..Len(d.v) : d.v[i][1] = k][2]

\* s * n for a str s
RECURSIVE StrMul(_, _)
StrMul(s, n) ==
    IF n <= 0 THEN ""
    ELSE IF n = 1 THEN s
    ELSE StrMul(s, n \div 2) \o StrMul(s, n - n \div 2)

\* sep.join(strs[lo..hi])
RECURSIVE JoinRange(_, _, _, _)
JoinRange(strs, lo, hi, sep) ==
    IF lo > hi THEN ""
    ELSE IF lo = hi THEN strs[lo]
    ELSE LET mid == (lo + hi) \div 2
         IN  JoinRange(strs, lo, mid, sep) \o sep \o JoinRange(strs, mid + 1, hi, sep)

Join(strs, sep) == JoinRange(strs, 1, Len(strs), sep)

\* "".join(parts) where every part is a str held as a sequence of characters
RECURSIVE JoinCharsRange(_, _, _)
JoinCharsRange(parts, lo, hi) ==
    IF lo > hi THEN <<>>
    ELSE IF lo = hi THEN parts[lo]
    ELSE LET mid == (lo + hi) \div 2
         IN  JoinCharsRange(parts, lo, mid) \o JoinCharsRange(parts, mid + 1, hi)

JoinChars(parts) == JoinCharsRange(parts, 1, Len(parts))

HexDigits == <<"0", "1", "2", "3", "4", "5", "6", "7", "8", "9",
               "a", "b", "c", "d", "e", "f">>

\* string.ascii_letters + string.digits + " "
DisplayAlphabet ==
    <<"a", "b", "c", "d", "e", "f", "g", "h", "i", "j", "k", "l", "m",
      "n", "o", "p", "q", "r", "s", "t", "u", "v", "w", "x", "y", "z",
      "A", "B", "C", "D", "E", "F", "G", "H", "I", "J", "K", "L", "M",
      "N", "O", "P", "Q", "R", "S", "T", "U", "V", "W", "X", "Y", "Z",
      "0", "1", "2", "3", "4", "5", "6", "7", "8", "9", " ">>

\* the characters str.strip() removes that the program can meet
IsSpace(c) == c = " "

----------------------------------------------------------------------------
(* The random module.  A call random.choices(population, k=k) is modelled  *)
(* by the k indices it draws, random.randint(a, b) by the integer it       *)
(* draws; picks are the indices, 0-based as in Python.                     *)

random_choices(population, picks) ==
    [j \in 1..Len(picks) |-> <<population[picks[j] + 1]>>]

\* the r-th raw output of the generator seeded with s, for record i
Raw(s, i, r) == ((s + 1) * 7919 + i * 104729 + r * r * 31 + r * 17 + i * r) % RawModulus

\* the integer random.randint(a, b) returns on the raw output raw
random_randint(a, b, raw) == a + (raw % (b - a + 1))

----------------------------------------------------------------------------
(* generate_hex_checksum, generate_display                                 *)

generate_hex_checksum(picks) == JoinChars(random_choices(HexDigits, picks))

\* str.lstrip / str.rstrip / str.strip on a sequence of characters
RECURSIVE lstrip(_)
lstrip(s) == IF s # <<>> /\ IsSpace(Head(s)) THEN lstrip(Tail(s)) ELSE s

RECURSIVE rstrip(_)
rstrip(s) ==
    IF s # <<>> /\ IsSpace(s[Len(s)]) THEN rstrip(SubSeq(s, 1, Len(s) - 1)) ELSE s

\* mutant: only the leading whitespace is removed
strip_lstrip_only(s) == lstrip(s)

strip(s) == rstrip(lstrip(s))

\* generate_display with the draws of its two random calls made explicit:
\* picks holds the `length` indices random.choices drew
generate_display(picks) == strip(JoinChars(random_choices(DisplayAlphabet, picks)))

----------------------------------------------------------------------------
(* generate_extra                                                          *)

FString(prefix, i) == prefix \o ToString(i)

\* mutant: range(1, 20) for range(20)
LargeTags_from_one ==
    <<Str("test"), Str("generated"), Str("large")>>
        \o [i \in 1..(LargeTagCount - 1) |-> Str(FString("tag_", i))]

\* line 52; range(n) is 0 .. n - 1
LargeTags ==
    <<Str("test"), Str("generated"), Str("large")>>
        \o [i \in 1..LargeTagCount |-> Str(FString("tag_", i - 1))]

\* mutant: range(49) for range(50)
LargeConfig_short ==
    [i \in 1..(LargeConfigCount - 1) |->
        <<FString("key_", i - 1), Str(FString("value_", i - 1))>>]

\* line 57
LargeConfig ==
    [i \in 1..LargeConfigCount |-> <<FString("key_", i - 1), Str(FString("value_", i - 1))>>]

generate_extra(size) ==
    IF size = "none" THEN Dict(<<>>)
    ELSE IF size = "small" THEN
        Dict(<< <<"source", Str("test_script")>>,
                <<"version", Str("1.0")>>,
                <<"tags", List(<<Str("test"), Str("generated")>>)>> >>)
    ELSE IF size = "medium" THEN
        Dict(<< <<"source", Str("test_script")>>,
                <<"version", Str("1.0")>>,
                <<"tags", List(<<Str("test"), Str("generated"), Str("medium")>>)>>,
                <<"metadata", Dict(<< <<"created_by", Str("test_user")>>,
                                      <<"project", Str("asset_testing")>>,
                                      <<"environment", Str("development")>> >>)>>,
                <<"description", Str(StrMul("A", MediumDescriptionLen))>> >>)
    ELSE IF size = "large" THEN
        Dict(<< <<"source", Str("test_script")>>,
                <<"version", Str("1.0")>>,
                <<"tags", List(LargeTags)>>,
                <<"metadata", Dict(<< <<"created_by", Str("test_user")>>,
                                      <<"project", Str("asset_testing")>>,
                                      <<"environment", Str("development")>>,
                                      <<"config", Dict(LargeConfig)>> >>)>>,
                <<"description", Str(StrMul("B", LargeDescriptionLen))>>,
                <<"notes", Str(StrMul("C", LargeNotesLen))>> >>)
    ELSE Dict(<<>>)

----------------------------------------------------------------------------
(* generate_asset_payload, generate_batch_payload.  The i-th record of a   *)
(* run draws from the generator's outputs Raw(s, i, _): ChecksumLen picks  *)
(* for the checksum, one output for the length, `length` picks after it.   *)

ChecksumPicks(s, i) == [j \in 1..ChecksumLen |-> Raw(s, i, j) % Len(HexDigits)]

DisplayLength(s, i) == random_randint(DisplayMin, DisplayMax, Raw(s, i, ChecksumLen + 1))

DisplayPicks(s, i) ==
    [j \in 1..DisplayLength(s, i) |->
        Raw(s, i, ChecksumLen + 1 + j) % Len(DisplayAlphabet)]

generate_asset_payload(size, s, i) ==
    Dict(<< <<"checksum", Chars(generate_hex_checksum(ChecksumPicks(s, i)))>>,
            <<"display", Chars(generate_display(DisplayPicks(s, i)))>>,
            <<"extra", generate_extra(size)>> >>)

\* mutant: range(1, n) for range(n)
generate_batch_payload_short(n, size, s) ==
    Dict(<< <<"assets", List([i \in 1..(n - 1) |-> generate_asset_payload(size, s, i)])>> >>)

\* range(n) is empty for n <= 0, as 1..n is
generate_batch_payload(n, size, s) ==
    Dict(<< <<"assets", List([i \in 1..n |-> generate_asset_payload(size, s, i)])>> >>)

----------------------------------------------------------------------------
(* json.dumps(obj, indent=2) on the values the program builds: items are   *)
(* separated by "," and a newline, keys by ": ", nested levels indented by *)
(* two spaces, empty containers written "[]" and "{}".  No character the   *)
(* program generates needs escaping.                                       *)

Indent == 2

Newline(level) == "\n" \o StrMul(" ", Indent * level)

Quote(s) == "\"" \o s \o "\""

RECURSIVE Encode(_, _)
Encode(val, level) ==
    IF val.t = "str" THEN Quote(val.v)
    ELSE IF val.t = "chars" THEN Quote(Join(val.v, ""))
    ELSE IF val.t = "list" THEN
        IF Len(val.v) = 0 THEN "[]"
        ELSE "[" \o Newline(level + 1)
             \o Join([i \in 1..Len(val.v) |-> Encode(val.v[i], level + 1)],
                     "," \o Newline(level + 1))
             \o Newline(level) \o "]"
    ELSE
        IF Len(val.v) = 0 THEN "{}"
        ELSE "{" \o Newline(level + 1)
             \o Join([i \in 1..Len(val.v) |->
                        Quote(val.v[i][1]) \o ": " \o Encode(val.v[i][2], level + 1)],
                     "," \o Newline(level + 1))
             \o Newline(level) \o "}"

json_dumps(obj) == Encode(obj, 0)

----------------------------------------------------------------------------
(* format_size.  Its argument is an int below 2^53 and every value the     *)
(* loop computes is that int divided by a power of 1024, which a double    *)
(* holds exactly.  Such a value is kept as base-1024 digits, least         *)
(* significant first, with the number of divisions done so far:            *)
(*     value = SUM limbs[i] * 1024^(i - 1 - shift).                        *)

Units == <<"B", "KB", "MB", "GB">>

RECURSIVE ToLimbs(_)
ToLimbs(n) == IF n < Kilo THEN <<n>> ELSE <<n % Kilo>> \o ToLimbs(n \div Kilo)

Number(limbs) == [limbs |-> limbs, shift |-> 0]

Limb(x, i) == IF i >= 1 /\ i <= Len(x.limbs) THEN x.limbs[i] ELSE 0

\* size_bytes < 1024.0
LessThanKilo(x) == \A i \in 1..Len(x.limbs) : i >= x.shift + 2 => x.limbs[i] = 0

\* size_bytes /= 1024.0
DivKilo(x) == [x EXCEPT !.shift = @ + 1]

\* floor(value)
RECURSIVE IntPartFrom(_, _)
IntPartFrom(x, i) ==
    IF i > Len(x.limbs) THEN 0 ELSE Limb(x, i) + Kilo * IntPartFrom(x, i + 1)

IntPart(x) == IntPartFrom(x, x.shift + 1)

\* 100 * (value - floor(value)), digit by digit from the least significant:
\* [carry |-> its integer part, top |-> the leading digit of its fraction,
\*  rest |-> whether any lower digit of its fraction is non-zero]
RECURSIVE FracTimes100(_, _)
FracTimes100(x, i) ==
    IF i = 0 THEN [carry |-> 0, top |-> 0, rest |-> FALSE]
    ELSE LET low == FracTimes100(x, i - 1)
             t == Limb(x, i) * 100 + low.carry
         IN  [carry |-> t \div Kilo,
              top |-> t % Kilo,
              rest |-> low.rest \/ low.top # 0]

\* the value in hundredths as "{:.2f}" rounds it: to nearest, ties to even
Hundredths(x) ==
    LET f == FracTimes100(x, x.shift)
        h == IntPart(x) * 100 + f.carry
        half == Kilo \div 2
        up == \/ f.top > half
              \/ f.top = half /\ f.rest
              \/ f.top = half /\ ~f.rest /\ h % 2 = 1
    IN  IF up THEN h + 1 ELSE h

\* f"{size_bytes:.2f}"
Format2f(x) ==
    LET h == Hundredths(x)
        c == h % 100
    IN  ToString(h \div 100) \o "." \o (IF c < 10 THEN "0" ELSE "") \o ToString(c)

\* the loop of format_size from its u-th unit on; the result holds the
\* returned text and the locals unit and size_bytes at the return
RECURSIVE format_size_from(_, _)
format_size_from(x, u) ==
    IF u > Len(Units)
    THEN [text |-> Format2f(x) \o " TB", unit |-> "TB", size_bytes |-> x]
    ELSE IF LessThanKilo(x)
    THEN [text |-> Format2f(x) \o " " \o Units[u], unit |-> Units[u], size_bytes |-> x]
    ELSE format_size_from(DivKilo(x), u + 1)

format_size(x) == format_size_from(x, 1)

----------------------------------------------------------------------------
(* int(s) on a str held as a sequence of characters: surrounding           *)
(* whitespace is dropped, one sign is allowed, then come decimal digits,   *)
(* which single underscores may separate; anything else is a ValueError.   *)

Digits == <<"0", "1", "2", "3", "4", "5", "6", "7", "8", "9">>

IsDigit(c) == \E d \in 1..Len(Digits) : Digits[d] = c

DigitValue(c) == (CHOOSE d \in 1..Len(Digits) : Digits[d] = c) - 1

Unsigned(s) == IF s # <<>> /\ Head(s) \in {"+", "-"} THEN Tail(s) ELSE s

IsDigitString(s) ==
    /\ s # <<>>
    /\ IsDigit(Head(s)) /\ IsDigit(s[Len(s)])
    /\ \A i \in 1..Len(s) : IsDigit(s[i]) \/ s[i] = "_"
    /\ \A i \in 1..(Len(s) - 1) : ~(s[i] = "_" /\ s[i + 1] = "_")

\* mutant: the empty string is read as 0
ParsesAsInt_empty_ok(s) == strip(s) = <<>> \/ IsDigitString(Unsigned(strip(s)))

ParsesAsInt(s) == IsDigitString(Unsigned(strip(s)))

RECURSIVE DigitsValue(_)
DigitsValue(s) ==
    IF s = <<>> THEN 0
    ELSE IF s[Len(s)] = "_" THEN DigitsValue(SubSeq(s, 1, Len(s) - 1))
    ELSE DigitsValue(SubSeq(s, 1, Len(s) - 1)) * 10 + DigitValue(s[Len(s)])

int(s) ==
    LET body == strip(s)
    IN  IF body # <<>> /\ Head(body) = "-"
        THEN 0 - DigitsValue(Unsigned(body))
        ELSE DigitsValue(Unsigned(body))

\* str(n) for n >= 0, as a sequence of characters
RECURSIVE Decimal(_)
Decimal(n) ==
    IF n < 10 THEN <<Digits[n + 1]>> ELSE Decimal(n \div 10) \o <<Digits[(n % 10) + 1]>>

----------------------------------------------------------------------------
(* The command lines, random seeds and working directories tried.          *)

ScriptName == "generate_assets_payload.py"

\* mutant: the empty tier is let through
ValidSizes_with_empty == {"none", "small", "medium", "large", ""}

\* line 92
ValidSizes == {"none", "small", "medium", "large"}

GoodCountArgs ==
    {Decimal(n) : n \in 0..MaxCount}
        \cup {<<"-", "1">>, <<"+", "1">>, <<"1", "_", "0">>, <<" ", "1">>}

BadCountArgs == {<<>>, <<"x">>, <<"1", ".", "5">>, <<"1", "e", "3">>, <<"_", "1">>}

CountArgs == GoodCountArgs \cup BadCountArgs

SizeArgs == ValidSizes \cup {"bogus", "SMALL", ""}

CommandLines ==
    {<<ScriptName>>}
        \cup {<<ScriptName, c>> : c \in CountArgs}
        \cup {<<ScriptName, c, e>> : c \in CountArgs, e \in SizeArgs}

\* f"assets_{num_assets}_{extra_size}.json"
FileNameOf(n, size) == "assets_" \o ToString(n) \o "_" \o size \o ".json"

OtherFile == "notes.txt"

FileNames ==
    {FileNameOf(n, e) : n \in {int(c) : c \in GoodCountArgs} \cup {DefaultNumAssets},
                        e \in SizeArgs}
        \cup {OtherFile}

NoFile == [exists |-> FALSE, data |-> ""]
File(data) == [exists |-> TRUE, data |-> data]

\* a directory that holds only an unrelated file, and one where every output
\* name is already taken by a file of an earlier run
Directories ==
    { [f \in FileNames |-> IF f = OtherFile THEN File("notes") ELSE NoFile],
      [f \in FileNames |-> IF f = OtherFile THEN File("notes") ELSE File("stale " \o f)] }

----------------------------------------------------------------------------
(* main(), one action per stage.                                           *)

DisplayIdle ==
    d_pc = "idle" /\ length = 0 /\ d_picks = <<>> /\ d_result = <<>>

FormatIdle ==
    /\ f_pc = "idle" /\ f_arg = Number(<<0>>) /\ size_bytes = Number(<<0>>)
    /\ unit = "" /\ f_result = ""

MainStart(args, s, dir) ==
    /\ argv = args
    /\ seed = s
    /\ fs = dir
    /\ fs0 = dir
    /\ pc = "ParseArguments"
    /\ num_assets = 0
    /\ extra_size = ""
    /\ payload = Dict(<<>>)
    /\ json_str = ""
    /\ filename = ""
    /\ stdout = <<>>
    /\ exc = "none"
    /\ exit_code = 0

Init ==
    /\ \E args \in CommandLines, s \in 0..MaxSeed, dir \in Directories :
            MainStart(args, s, dir)
    /\ DisplayIdle
    /\ FormatIdle

\* an exception nothing catches: the interpreter prints the traceback to
\* stderr and exits with status 1
Raise(e) ==
    /\ pc' = "Exited"
    /\ exc' = e
    /\ exit_code' = 1

\* mutant: a count that does not parse is caught and read as 0
ParseArguments_fallback ==
    /\ UNCHANGED <<display_vars, format_vars>>
    /\ pc = "ParseArguments"
    /\ num_assets' = (IF Len(argv) > 1
                      THEN (IF ParsesAsInt(argv[2]) THEN int(argv[2]) ELSE 0)
                      ELSE DefaultNumAssets)
    /\ extra_size' = (IF Len(argv) > 2 THEN argv[3] ELSE "small")
    /\ pc' = "ValidateTier"
    /\ UNCHANGED <<argv, seed, fs0, payload, json_str, filename, fs, stdout, exc, exit_code>>

\* lines 89-90
ParseArguments ==
    /\ UNCHANGED <<display_vars, format_vars>>
    /\ pc = "ParseArguments"
    /\ IF Len(argv) > 1 /\ ~ParsesAsInt(argv[2])
       THEN /\ Raise("ValueError")
            /\ UNCHANGED <<num_assets, extra_size>>
       ELSE /\ num_assets' = (IF Len(argv) > 1 THEN int(argv[2]) ELSE DefaultNumAssets)
            /\ extra_size' = (IF Len(argv) > 2 THEN argv[3] ELSE "small")
            /\ pc' = "ValidateTier"
            /\ UNCHANGED <<exc, exit_code>>
    /\ UNCHANGED <<argv, seed, fs0, payload, json_str, filename, fs, stdout>>

\* lines 92-97
ValidateTier ==
    /\ UNCHANGED <<display_vars, format_vars>>
    /\ pc = "ValidateTier"
    /\ IF extra_size \notin ValidSizes
       THEN /\ stdout' = stdout \o <<"Invalid extra_size: " \o extra_size,
                                     "Valid options: none, small, medium, large">>
            /\ pc' = "Exited"
            /\ exc' = "SystemExit"
            /\ exit_code' = 1
       ELSE /\ stdout' = Append(stdout,
                    "Generating " \o ToString(num_assets) \o " assets with '"
                        \o extra_size \o "' extra data...")
            /\ pc' = "Generate"
            /\ UNCHANGED <<exc, exit_code>>
    /\ UNCHANGED <<argv, seed, fs0, num_assets, extra_size, payload, json_str, filename, fs>>

\* line 99
Generate ==
    /\ UNCHANGED <<display_vars, format_vars>>
    /\ pc = "Generate"
    /\ payload' = generate_batch_payload(num_assets, extra_size, seed)
    /\ pc' = "Serialize"
    /\ UNCHANGED <<argv, seed, fs0, num_assets, extra_size, json_str, filename, fs,
                   stdout, exc, exit_code>>

\* line 100
Serialize ==
    /\ UNCHANGED <<display_vars, format_vars>>
    /\ pc = "Serialize"
    /\ json_str' = json_dumps(payload)
    /\ pc' = "Write"
    /\ UNCHANGED <<argv, seed, fs0, num_assets, extra_size, payload, filename, fs,
                   stdout, exc, exit_code>>

\* mutant: the file is opened with "a"
open_a_write(dir, name, text) == [dir EXCEPT ![name] = File(dir[name].data \o text)]

\* open(name, "w") followed by f.write(text) and the close: the file is
\* created or truncated, then holds text
open_w_write(dir, name, text) == [dir EXCEPT ![name] = File(text)]

\* lines 103-105
Write ==
    /\ UNCHANGED <<display_vars, format_vars>>
    /\ pc = "Write"
    /\ filename' = FileNameOf(num_assets, extra_size)
    /\ fs' = open_w_write(fs, filename', json_str)
    /\ pc' = "Report"
    /\ UNCHANGED <<argv, seed, fs0, num_assets, extra_size, payload, json_str,
                   stdout, exc, exit_code>>

\* lines 103-104 when open() raises: nothing is created or truncated
WriteOpenFails ==
    /\ UNCHANGED <<display_vars, format_vars>>
    /\ pc = "Write"
    /\ filename' = FileNameOf(num_assets, extra_size)
    /\ Raise("OSError")
    /\ UNCHANGED <<argv, seed, fs0, num_assets, extra_size, payload, json_str, fs, stdout>>

\* mutant: a failed write is tried again
WriteFails_retry ==
    /\ UNCHANGED <<display_vars, format_vars>>
    /\ pc = "Write"
    /\ filename' = FileNameOf(num_assets, extra_size)
    /\ \E partial \in {"", "{"} : fs' = [fs EXCEPT ![filename'] = File(partial)]
    /\ UNCHANGED <<argv, seed, fs0, pc, num_assets, extra_size, payload, json_str,
                   stdout, exc, exit_code>>

\* lines 103-105 when the write or the close raises after open() truncated
\* the file: what reached the disk is a proper prefix of the text
WriteFails ==
    /\ UNCHANGED <<display_vars, format_vars>>
    /\ pc = "Write"
    /\ filename' = FileNameOf(num_assets, extra_size)
    /\ \E partial \in {"", "{"} : fs' = [fs EXCEPT ![filename'] = File(partial)]
    /\ Raise("OSError")
    /\ UNCHANGED <<argv, seed, fs0, num_assets, extra_size, payload, json_str, stdout>>

\* len(json_str.encode("utf-8")): every character written is ASCII
Utf8Len(text) == Len(text)

\* lines 107-114, then the return from main(); the check mark that opens
\* three of the lines is left out
Report ==
    /\ UNCHANGED <<display_vars, format_vars>>
    /\ pc = "Report"
    /\ LET size == Utf8Len(json_str)
       IN  stdout' = stdout \o
             << "Generated: " \o filename,
                "Size: " \o format_size(Number(ToLimbs(size))).text,
                "Assets: " \o ToString(num_assets),
                "\nTo test with curl:",
                "curl -X POST http://localhost:8080/api/assets \\",
                "  -H \"Content-Type: application/json\" \\",
                "  -d @" \o filename >>
    /\ pc' = "Exited"
    /\ exit_code' = 0
    /\ UNCHANGED <<argv, seed, fs0, num_assets, extra_size, payload, json_str, filename,
                   fs, exc>>

Next ==
    \/ ParseArguments
    \/ ValidateTier
    \/ Generate
    \/ Serialize
    \/ Write
    \/ WriteOpenFails
    \/ WriteFails
    \/ Report

Spec == Init /\ [][Next]_vars

----------------------------------------------------------------------------
(* One call of generate_display(), its two random calls drawn freely: the  *)
(* length from every raw output, the characters free at both ends of the   *)
(* sample and equal in between.                                            *)

MainIdle == MainStart(<<ScriptName>>, 0, [f \in FileNames |-> NoFile])

\* indices of DisplayAlphabet tried: a letter and the space
SamplePicks == {0, Len(DisplayAlphabet) - 1}

EdgePicks(n, prefix, fill, suffix) ==
    [j \in 1..n |->
        IF j <= EdgeLen THEN prefix[j]
        ELSE IF j > n - EdgeLen THEN suffix[j - (n - EdgeLen)]
        ELSE fill]

DisplayInit ==
    /\ d_pc = "randint" /\ length = 0 /\ d_picks = <<>> /\ d_result = <<>>
    /\ MainIdle
    /\ FormatIdle

\* line 20
DisplayRandint ==
    /\ d_pc = "randint"
    /\ \E raw \in 0..(RawModulus - 1) :
            length' = random_randint(DisplayMin, DisplayMax, raw)
    /\ d_pc' = "choices"
    /\ UNCHANGED <<d_picks, d_result, main_vars, format_vars>>

\* line 22: the indices random.choices draws
DisplayChoices ==
    /\ d_pc = "choices"
    /\ \E prefix \in [1..EdgeLen -> SamplePicks], suffix \in [1..EdgeLen -> SamplePicks],
          fill \in SamplePicks :
            d_picks' = EdgePicks(length, prefix, fill, suffix)
    /\ d_pc' = "strip"
    /\ UNCHANGED <<length, d_result, main_vars, format_vars>>

\* lines 21-23
DisplayReturn ==
    /\ d_pc = "strip"
    /\ d_result' = generate_display(d_picks)
    /\ d_pc' = "returned"
    /\ UNCHANGED <<length, d_picks, main_vars, format_vars>>

DisplayNext == DisplayRandint \/ DisplayChoices \/ DisplayReturn

SpecDisplay == DisplayInit /\ [][DisplayNext]_vars

----------------------------------------------------------------------------
(* One call of format_size() on a byte count below 2^53, its base-1024     *)
(* digits drawn from a few values that meet the unit boundaries and the    *)
(* rounding ties.                                                          *)

LimbSamples == {0, 1, 640, 1023}

\* 2^53 = 8 * 1024^5
BelowTwo53(limbs) ==
    \A i \in 1..Len(limbs) : /\ i = 6 => limbs[i] < 8
                             /\ i > 6 => limbs[i] = 0

FormatInputs == {limbs \in [1..MaxLimbs -> LimbSamples] : BelowTwo53(limbs)}

FormatInit ==
    /\ f_pc = "call"
    /\ \E limbs \in FormatInputs : f_arg = Number(limbs)
    /\ size_bytes = f_arg
    /\ unit = ""
    /\ f_result = ""
    /\ MainIdle
    /\ DisplayIdle

\* lines 79-85
FormatReturn ==
    /\ f_pc = "call"
    /\ LET r == format_size(f_arg)
       IN  /\ unit' = r.unit
           /\ size_bytes' = r.size_bytes
           /\ f_result' = r.text
    /\ f_pc' = "returned"
    /\ UNCHANGED <<f_arg, main_vars, display_vars>>

FormatNext == FormatReturn

SpecFormat == FormatInit /\ [][FormatNext]_vars

----------------------------------------------------------------------------
(* What the command line asks for, read off argv alone.                    *)

CountGiven == Len(argv) > 1
CountIsBad == CountGiven /\ argv[2] \in BadCountArgs
SizeGiven == Len(argv) > 2
SizeAsked == IF SizeGiven THEN argv[3] ELSE "small"
SizeIsBad == SizeAsked \notin {"none", "small", "medium", "large"}

Exited == pc = "Exited"
\* line 99 has run
Generated == pc \in {"Serialize", "Write", "Report"} \/ (Exited /\ exc \in {"none", "OSError"})
\* line 105 has run to its end
Written == pc = "Report" \/ (Exited /\ exc = "none")
Assets == Get(payload, "assets").v
NothingGenerated == payload = Dict(<<>>) /\ json_str = ""
SummaryLines == {i \in 1..Len(stdout) : stdout[i] \in
    {"Generated: " \o filename, "Assets: " \o ToString(num_assets),
     "\nTo test with curl:", "  -d @" \o filename}}

----------------------------------------------------------------------------
(* C1: for every count N >= 0 and every valid tier the generated batch has *)
(* exactly N records; a count of 0 gives the empty sequence, is no error   *)
(* (the run can end only normally or on a failed write), and a run that    *)
(* ends normally has written the file with the empty batch and exits 0.    *)
C1_BatchHasCount ==
    /\ (Generated /\ num_assets >= 0) =>
            /\ Keys(payload) = <<"assets">>
            /\ payload.v[1][2].t = "list"
            /\ Len(Assets) = num_assets
    /\ (Generated /\ num_assets = 0) => Assets = <<>>
    /\ (Exited /\ CountGiven /\ argv[2] = <<"0">> /\ ~SizeIsBad) =>
            /\ exc \in {"none", "OSError"}
            /\ exc = "none" =>
                    /\ exit_code = 0
                    /\ fs["assets_0_" \o SizeAsked \o ".json"] = File("{\n  \"assets\": []\n}")

C1_Witness ==
    /\ Exited /\ exit_code = 0
    /\ argv = <<ScriptName, <<"0">>, "large">>
    /\ Assets = <<>>
    /\ fs["assets_0_large.json"].exists

(* C2 as stated: whenever the tier argument is not one of the four values, *)
(* the run prints the error naming it and the list of valid values, exits  *)
(* non-zero, generates nothing and leaves the directory as it was.         *)
C2_Original ==
    (Exited /\ SizeGiven /\ SizeIsBad) =>
        /\ stdout = <<"Invalid extra_size: " \o argv[3],
                      "Valid options: none, small, medium, large">>
        /\ exit_code # 0
        /\ NothingGenerated
        /\ fs = fs0

(* C2 amended: the same, when the count argument is one int() parses; when *)
(* it is not, the run still exits non-zero with nothing generated and the  *)
(* directory as it was, but prints no message about the tier.              *)
C2_InvalidTierRejected ==
    (Exited /\ SizeGiven /\ SizeIsBad) =>
        /\ exit_code # 0
        /\ NothingGenerated
        /\ fs = fs0
        /\ ~CountIsBad => /\ exc = "SystemExit"
                          /\ stdout = <<"Invalid extra_size: " \o argv[3],
                                        "Valid options: none, small, medium, large">>
        /\ CountIsBad => stdout = <<>>

C2_Witness ==
    /\ Exited
    /\ argv = <<ScriptName, <<"2">>, "bogus">>
    /\ fs0["assets_2_bogus.json"].exists
    /\ stdout[1] = "Invalid extra_size: bogus"

(* C3 as stated: a run whose tier is valid or omitted exits with status 0  *)
(* whatever the count argument is (a failed write set aside).              *)
C3_Original ==
    (Exited /\ ~SizeIsBad /\ exc # "OSError") => exit_code = 0

(* C3 amended: a run ends with non-zero status exactly when the tier is    *)
(* invalid, the count argument is not an integer literal, or writing the   *)
(* file fails; every other run that has ended went through generation,    *)
(* write and report and exits with status 0.                               *)
C3_NonZeroExits ==
    Exited =>
        /\ exit_code # 0 <=> (SizeIsBad \/ CountIsBad \/ exc = "OSError")
        /\ exit_code = 0 =>
            /\ exc = "none"
            /\ fs[filename] = File(json_str)
            /\ Len(Assets) = (IF num_assets > 0 THEN num_assets ELSE 0)
            /\ Len(stdout) = 8
            /\ stdout[4] = "Assets: " \o ToString(num_assets)

C3_Witness ==
    /\ Exited /\ exit_code = 0
    /\ argv = <<ScriptName>>
    /\ Len(Assets) = 1000
    /\ fs["assets_1000_small.json"].exists

(* C4: a count argument that is not an integer literal ends the run at the *)
(* parsing step with an uncaught ValueError and status 1, before the tier  *)
(* is looked at (nothing is printed, even for an invalid tier), before     *)
(* anything is generated and with the directory as it was.                 *)
C4_BadCountFailsAtParse ==
    CountIsBad =>
        /\ pc \in {"ParseArguments", "Exited"}
        /\ NothingGenerated
        /\ stdout = <<>>
        /\ extra_size = ""
        /\ fs = fs0
        /\ Exited => exc = "ValueError" /\ exit_code = 1

C4_Witness ==
    /\ Exited
    /\ argv = <<ScriptName, <<"1", ".", "5">>, "bogus">>
    /\ exc = "ValueError"

(* C5: generate_extra returns the fixed structure of its tier, and every   *)
(* record of a batch carries the structure of the batch's tier: nothing    *)
(* for none; exactly source, version and tags with their fixed values for  *)
(* small; a description of 200 "A" for medium; for large a description of  *)
(* 500 "B", notes of 300 "C" and a metadata.config of exactly the 50       *)
(* entries key_i -> value_i, i = 0 .. 49.                                  *)
C5_ExtraOfTier ==
    Generated =>
        \A i \in 1..Len(Assets) :
            LET rec == Assets[i] IN
            /\ Keys(rec) = <<"checksum", "display", "extra">>
            /\ LET e == rec.v[3][2] IN
               /\ e.t = "dict"
               /\ extra_size = "none" => e.v = <<>>
               /\ extra_size = "small" =>
                    e.v = << <<"source", Str("test_script")>>,
                             <<"version", Str("1.0")>>,
                             <<"tags", List(<<Str("test"), Str("generated")>>)>> >>
               /\ extra_size = "medium" =>
                    /\ HasKey(e, "description")
                    /\ Get(e, "description") = Str("AAAAAAAAAAAAAAAAAAAAAAAAAAAAAAAAAAAAAAAAAAAAAAAAAAAAAAAAAAAAAAAAAAAAAAAAAAAAAAAAAAAAAAAAAAAAAAAAAAAAAAAAAAAAAAAAAAAAAAAAAAAAAAAAAAAAAAAAAAAAAAAAAAAAAAAAAAAAAAAAAAAAAAAAAAAAAAAAAAAAAAAAAAAAAAAAAAAAAAAA")
               /\ extra_size = "large" =>
                    /\ HasKey(e, "description") /\ HasKey(e, "notes") /\ HasKey(e, "metadata")
                    /\ Get(e, "description") = Str("BBBBBBBBBBBBBBBBBBBBBBBBBBBBBBBBBBBBBBBBBBBBBBBBBBBBBBBBBBBBBBBBBBBBBBBBBBBBBBBBBBBBBBBBBBBBBBBBBBBBBBBBBBBBBBBBBBBBBBBBBBBBBBBBBBBBBBBBBBBBBBBBBBBBBBBBBBBBBBBBBBBBBBBBBBBBBBBBBBBBBBBBBBBBBBBBBBBBBBBBBBBBBBBBBBBBBBBBBBBBBBBBBBBBBBBBBBBBBBBBBBBBBBBBBBBBBBBBBBBBBBBBBBBBBBBBBBBBBBBBBBBBBBBBBBBBBBBBBBBBBBBBBBBBBBBBBBBBBBBBBBBBBBBBBBBBBBBBBBBBBBBBBBBBBBBBBBBBBBBBBBBBBBBBBBBBBBBBBBBBBBBBBBBBBBBBBBBBBBBBBBBBBBBBBBBBBBBBBBBBBBBBBBBBBBBBBBBBBBBBBBBBBBBBBBBBBBBBBBBBBBBBBBBBBBBBBBBBBBBBBBBBBBBBBBBBBBBBBBBB")
                    /\ Get(e, "notes") = Str("CCCCCCCCCCCCCCCCCCCCCCCCCCCCCCCCCCCCCCCCCCCCCCCCCCCCCCCCCCCCCCCCCCCCCCCCCCCCCCCCCCCCCCCCCCCCCCCCCCCCCCCCCCCCCCCCCCCCCCCCCCCCCCCCCCCCCCCCCCCCCCCCCCCCCCCCCCCCCCCCCCCCCCCCCCCCCCCCCCCCCCCCCCCCCCCCCCCCCCCCCCCCCCCCCCCCCCCCCCCCCCCCCCCCCCCCCCCCCCCCCCCCCCCCCCCCCCCCCCCCCCCCCCCCCCCCCCCCCCCCCCCCCCCCCCCCCCCCCCCC")
                    /\ Get(e, "metadata").t = "dict"
                    /\ HasKey(Get(e, "metadata"), "config")
                    /\ LET config == Get(Get(e, "metadata"), "config") IN
                       /\ config.t = "dict"
                       /\ Len(config.v) = 50
                       /\ config.v[1] = <<"key_0", Str("value_0")>>
                       /\ config.v[50] = <<"key_49", Str("value_49")>>
                       /\ \A k \in 0..49 :
                            config.v[k + 1] = <<"key_" \o ToString(k), Str("value_" \o ToString(k))>>

C5_Witness ==
    /\ Generated
    /\ extra_size = "large"
    /\ Len(Assets) = 2
    /\ Len(Get(Get(Assets[2].v[3][2], "metadata"), "config").v) = 50

(* C6 as stated: for large, tags is the small tier's list, "test" and      *)
(* "generated", followed by tag_0 .. tag_19 and nothing else.              *)
C6_Original ==
    (Generated /\ extra_size = "large") =>
        \A i \in 1..Len(Assets) :
            Get(Assets[i].v[3][2], "tags") =
                List(<<Str("test"), Str("generated")>>
                        \o [k \in 1..20 |-> Str("tag_" \o ToString(k - 1))])

(* C6 amended: for large, tags is "test", "generated" and the fixed string *)
(* "large", followed by tag_0 .. tag_19 in index order and nothing else:   *)
(* 23 strings.                                                             *)
C6_LargeTags ==
    (Generated /\ extra_size = "large") =>
        \A i \in 1..Len(Assets) :
            LET e == Assets[i].v[3][2] IN
            /\ HasKey(e, "tags")
            /\ Get(e, "tags") =
                List(<<Str("test"), Str("generated"), Str("large")>>
                        \o [k \in 1..20 |-> Str("tag_" \o ToString(k - 1))])
            /\ Len(Get(e, "tags").v) = 23
            /\ Get(e, "tags").v[4] = Str("tag_0")
            /\ Get(e, "tags").v[23] = Str("tag_19")

C6_Witness ==
    /\ Generated
    /\ extra_size = "large"
    /\ Len(Assets) = 1
    /\ Get(Assets[1].v[3][2], "tags").v[3] = Str("large")

(* C7: once the write of a run with count N and valid tier T has finished, *)
(* the file assets_<N>_<T>.json holds exactly the serialized text of the   *)
(* batch of this run, whatever it held before, and every other file is as  *)
(* the run found it.                                                       *)
C7_OnlyTheOutputFile ==
    Written =>
        /\ filename = "assets_" \o ToString(num_assets) \o "_" \o extra_size \o ".json"
        /\ filename \in DOMAIN fs
        /\ fs[filename].exists
        /\ fs[filename].data = json_dumps(payload)
        /\ \A f \in DOMAIN fs : f # filename => fs[f] = fs0[f]

C7_Witness ==
    /\ Written
    /\ num_assets = 2 /\ extra_size = "medium"
    /\ fs0["assets_2_medium.json"] = File("stale assets_2_medium.json")
    /\ fs["assets_2_medium.json"].data = json_str
    /\ Len(json_str) > 500

(* C8 as stated: the magnitude format_size displays, rounded to two        *)
(* decimal places, is 1024.00 or more only in the unit TB.                 *)
C8_Original ==
    (f_pc = "returned" /\ unit # "TB") => Hundredths(size_bytes) < 1024 * 100

(* C9: generate_display samples a length in 10 .. 120 and as many          *)
(* characters; what it returns is no longer than the sample, begins and    *)
(* ends with no space, and is the stretch of the sample from its first to  *)
(* its last character that is not a space (empty when there is none).      *)
C9_DisplayIsTrimmedSample ==
    /\ d_pc \in {"choices", "strip", "returned"} => length \in 10..120
    /\ d_pc \in {"strip", "returned"} => Len(d_picks) = length
    /\ d_pc = "returned" =>
        LET sampled == [j \in 1..length |-> DisplayAlphabet[d_picks[j] + 1]]
            solid == {j \in 1..length : sampled[j] # " "}
        IN  /\ Len(d_result) <= length
            /\ d_result # <<>> => d_result[1] # " " /\ d_result[Len(d_result)] # " "
            /\ \E from \in 1..(length + 1) :
                   /\ from + Len(d_result) - 1 <= length
                   /\ \A j \in 1..Len(d_result) : d_result[j] = sampled[from + j - 1]
                   /\ \A j \in solid : from <= j /\ j <= from + Len(d_result) - 1
            /\ solid = {} <=> d_result = <<>>

C9_Witness ==
    /\ d_pc = "returned"
    /\ length = 10
    /\ d_result = <<>>

(* C10: main() goes through Parse Arguments, Validate Tier, Generate,      *)
(* Serialize, Write and Report in that order, each step leading to the     *)
(* next stage or out of the program; the only exit the program makes       *)
(* itself is at Validate Tier; the summary is printed only once the file   *)
(* holds the text; a failed write ends the run with non-zero status, no    *)
(* summary and no second attempt.                                          *)
Stages == <<"ParseArguments", "ValidateTier", "Generate", "Serialize", "Write",
            "Report", "Exited">>

StageIndex(p) == CHOOSE k \in 1..Len(Stages) : Stages[k] = p

C10_StraightLine ==
    /\ [][/\ pc # "Exited"
          /\ pc' = "Exited" \/ StageIndex(pc') = StageIndex(pc) + 1
          /\ exc' = "SystemExit" => pc = "ValidateTier"
          /\ (pc' = "Exited" /\ exc' = "none") => pc = "Report"
          /\ exc' = "OSError" => (pc = "Write" /\ pc' = "Exited")]_vars
    /\ [](SummaryLines # {} => (Exited /\ exc = "none" /\ fs[filename] = File(json_str)))
    /\ [](exc = "OSError" =>
            /\ Exited /\ exit_code # 0
            /\ Len(stdout) = 1
            /\ SummaryLines = {})

C10_Witness ==
    /\ Exited
    /\ exc = "OSError"
    /\ fs[filename] = File("{")
    /\ fs0[filename] = File("stale " \o filename)

====
